---- MODULE Spec2Model ----
(***************************************************************************)
(* The editor persistence coordinator of the Notion-like editor: the hook  *)
(* useEditorLocalStorage (src/hooks/use-editor-local-storage.ts, lines     *)
(* 35-379).  One hook instance reconciles the editor document, the local   *)
(* cache entry and the remote draft, and schedules the debounced flushes.  *)
(*                                                                         *)
(* Time is counted in seconds.  JavaScript runs each handler to completion, *)
(* so every action below is one handler (or one continuation after an      *)
(* await) executed atomically.  Timers are kept by the seconds left until  *)
(* they fire.  Timestamps are only ever compared with each other (lines    *)
(* 103-106), so they are kept up to their order: after every step the      *)
(* timestamps in the state are renumbered 0, 1, 2, ... in ascending order. *)
(***************************************************************************)
EXTENDS Integers, Sequences, FiniteSets, TLC

\* ------------------------------------------------------------------ bounds
\* The user operations (edits, manual saves, clears, reloads) of one run.
MaxOps == 3
\* the nodes a document of the image monitor has at most
MaxNodes == 3
\* the calls of handleImageDeletion awaiting their delete request at most
MaxDeletions == 2

\* --------------------------------------------------------------- constants
\* setTimeout(..., 1000): the local debounce delay, in seconds.
LOCAL_SAVE_DELAY == 1
\* setTimeout(..., 10000): the remote debounce delay, in seconds.
SERVER_SAVE_DELAY == 10

\* ------------------------------------------------------------- JSON values
\* A JSON value is described by what the code inspects of it: whether it is
\* null, a non-object or an object, its "type" field ("" when missing) and
\* its "content" field ("undefined" when missing).
JNull == [tag |-> "null", type |-> "", content |-> "undefined"]
\* an object without a type field: malformed
Malformed == [tag |-> "object", type |-> "", content |-> "x"]
\* an object with a type that is not "doc" and without a content field: malformed
BareNode == [tag |-> "object", type |-> "paragraph", content |-> "undefined"]
\* the document the editor holds after clearContent / when it is created
EmptyDoc == [tag |-> "object", type |-> "doc", content |-> "empty"]
DocA == [tag |-> "object", type |-> "doc", content |-> "a"]
DocB == [tag |-> "object", type |-> "doc", content |-> "b"]

\* the documents editing can produce (editor.getJSON() of an edited editor)
Docs == {DocA, DocB}

\* JSON.stringify: the text of a value; <<>> stands for the null marker
JSONstringify(c) == <<c.tag, c.type, c.content>>
NullString == <<>>

\* !content
Falsy(c) == c.tag = "null"

\* isValidContent, lines 63-77
isValidContent(c) ==
  IF Falsy(c) THEN FALSE
  ELSE IF c.tag # "object" \/ c.type = "" THEN FALSE
  ELSE c.type = "doc" \/ c.content # "undefined"

\* -------------------------------------------------------------- timestamps
\* An ISO timestamp is the second it names; NaN is what new Date() gives
\* for a string that is no date.
NaN == -1
\* DateLater as it would be if line 106 were serverDate >= localDate
DateLater_orEqual(a, b) == a # NaN /\ b # NaN /\ a >= b

\* serverDate > localDate on Date objects: false when either is invalid
DateLater(a, b) == a # NaN /\ b # NaN /\ a > b

\* ----------------------------------------------------------------- records
NoTitle == "undefined"
RemoteTitle == "t"
\* EditorContent | null  (interface EditorContent, lines 8-12)
NullContent == [exists |-> FALSE, content |-> JNull, lastModified |-> NaN, title |-> NoTitle]
EditorContent(c, t, ttl) == [exists |-> TRUE, content |-> c, lastModified |-> t, title |-> ttl]
\* ArticleMetadata | null  (interface ArticleMetadata, lines 14-22)
NullArticle == [exists |-> FALSE, content |-> JNull, updatedAt |-> NaN, title |-> NoTitle]
ArticleMetadata(c, t) == [exists |-> TRUE, content |-> c, updatedAt |-> t, title |-> RemoteTitle]

\* getMostRecentContent, lines 80-116
serverContentOf(serverData) ==
  EditorContent(serverData.content, serverData.updatedAt, serverData.title)

getMostRecentContent(localContent, serverData) ==
  IF ~serverData.exists \/ Falsy(serverData.content) THEN
    IF localContent.exists /\ isValidContent(localContent.content)
      THEN [source |-> "local", content |-> localContent]
      ELSE [source |-> "none", content |-> NullContent]
  ELSE IF ~localContent.exists \/ ~isValidContent(localContent.content) THEN
    [source |-> "server", content |-> serverContentOf(serverData)]
  ELSE IF DateLater(serverData.updatedAt, localContent.lastModified) THEN
    [source |-> "server", content |-> serverContentOf(serverData)]
  ELSE [source |-> "local", content |-> localContent]

\* the article ids the hook can be given (its articleId argument, line 37)
ArticleIds == {"a1", "a2"}

\* ------------------------------------------------------------------- state
VARIABLES
  enabled,                 \* serverSaveOptions.enabled
  editor,                  \* the editor's document (editor.getJSON())
  savedContent,            \* the local cache entry (useLocalStorage state)
  remoteDraft,             \* the draft the remote store holds
  lastServerSavedContent,  \* ref: serialization of the last confirmed payload
  isSaving,                \* ref: a remote save is in flight
  hasUnsavedChanges,       \* state: the dirty flag
  isLoadingContent,        \* state
  contentLoadError,        \* state
  hasInitiallyLoaded,      \* ref
  loadPhase,               \* where loadInitialContent stands: idle, fetching, done
  loadLocal,               \* savedContent as the pending load's closure captured it
  loadSource,              \* the source getMostRecentContent chose
  listening,               \* handleUpdate is subscribed to editor "update"
  depsLoaded,              \* hasInitiallyLoaded.current in the effect's deps
  localTimers,             \* pending local timers, by the seconds left
  serverTimers,            \* pending remote timers, by the seconds left
  localSaveTimeoutId,      \* handleUpdate's closure variable (a set of <= 1)
  serverSaveTimeoutId,     \* handleUpdate's closure variable (a set of <= 1)
  saves,                   \* saveToServer calls awaiting saveFunction
  now,                     \* the clock
  callbacks,               \* the callbacks the last step invoked
  lastStep,                \* the handler the last step ran
  sinceUpdate,             \* seconds since handleUpdate last ran
  history,                 \* what the user did last: see the actions
  ops,                     \* the user operations so far
  submits,                 \* submitContent calls awaiting the POST: their jsonContent
  failure,                 \* the error of the last step and where it went
  articleId,               \* the article id the hook is given
  loads,                   \* per article id, the runs of loadInitialContent
  instrumented,            \* the two history variables below are recorded
  cacheFresh,              \* the cache entry was flushed from the newest edit
  flushAttempted,          \* saveContent has run on the editor's present content
                           \* since the pending remote timer was scheduled
  docNodes,                \* the image monitor's view of editor.state.doc: its nodes
  previousImages,          \* the image monitor's closure variable
  deletedImages,           \* the onImageDelete calls of the last step, in order
  deletionRequested,       \* the identifiers onImageDelete was ever called with
  deletions,               \* handleImageDeletion calls awaiting the delete request
  deletionOutcome,         \* how the last handleImageDeletion call settled
  monitoring,              \* the image monitor's handleUpdate is subscribed
  imageStep                \* what the image monitor did last

vars == <<enabled, editor, savedContent, remoteDraft, lastServerSavedContent,
          isSaving, hasUnsavedChanges, isLoadingContent, contentLoadError,
          hasInitiallyLoaded, loadPhase, loadLocal, loadSource,
          listening, depsLoaded, localTimers, serverTimers, localSaveTimeoutId,
          serverSaveTimeoutId, saves, now, callbacks, lastStep, sinceUpdate,
          history, ops, submits, failure, articleId, loads, instrumented,
          cacheFresh, flushAttempted, docNodes, previousImages, deletedImages,
          deletionRequested, deletions, deletionOutcome, monitoring, imageStep>>

stampVars == <<savedContent, remoteDraft, loadLocal, now>>
timerVars == <<localTimers, serverTimers, localSaveTimeoutId,
               serverSaveTimeoutId, sinceUpdate>>
loadVars == <<hasInitiallyLoaded, loadPhase, loadSource, isLoadingContent,
              contentLoadError>>
subVars == <<listening, depsLoaded>>
saveVars == <<isSaving, saves>>
navVars == <<articleId, loads>>
imageVars == <<docNodes, previousImages, deletedImages, deletionRequested,
               deletions, deletionOutcome, monitoring, imageStep>>
deletionVars == <<deletions, deletionOutcome>>
monitorVars == <<docNodes, previousImages, deletedImages, deletionRequested,
                 monitoring, imageStep>>
\* no handleImageDeletion call has settled
NoOutcome == [settled |-> "none"]
hookVars == <<enabled, editor, savedContent, remoteDraft, lastServerSavedContent,
              isSaving, hasUnsavedChanges, isLoadingContent, contentLoadError,
              hasInitiallyLoaded, loadPhase, loadLocal, loadSource,
              listening, depsLoaded, localTimers, serverTimers,
              localSaveTimeoutId, serverSaveTimeoutId, saves, now, callbacks,
              lastStep, sinceUpdate, history, ops, submits, failure, articleId,
              loads, instrumented, cacheFresh, flushAttempted>>

\* The place of timestamp x among the timestamps S of the state.
Rank(x, S) == IF x = NaN THEN NaN ELSE Cardinality({y \in S : y < x})

\* The stores and the clock after a step, their timestamps renumbered.
Stores(sc, rd, ll, n) ==
  LET S == {sc.lastModified, rd.updatedAt, ll.lastModified, n} \ {NaN} IN
  /\ savedContent' = [sc EXCEPT !.lastModified = Rank(@, S)]
  /\ remoteDraft' = [rd EXCEPT !.updatedAt = Rank(@, S)]
  /\ loadLocal' = [ll EXCEPT !.lastModified = Rank(@, S)]
  /\ now' = Rank(n, S)

\* what the local cache and the remote store may hold when the page opens
InitLocal ==
  {NullContent, EditorContent(DocA, 1, NoTitle), EditorContent(Malformed, 1, NoTitle)}
InitRemote ==
  {NullArticle, ArticleMetadata(JNull, 2)}
    \cup {ArticleMetadata(DocB, t) : t \in {0, 1, 2}}
    \cup {ArticleMetadata(Malformed, 2), ArticleMetadata(BareNode, 0)}

InitHook ==
  /\ enabled \in BOOLEAN
  /\ \E l \in InitLocal, r \in InitRemote :
       LET S == {l.lastModified, r.updatedAt, 2} \ {NaN} IN
       /\ savedContent = [l EXCEPT !.lastModified = Rank(@, S)]
       /\ remoteDraft = [r EXCEPT !.updatedAt = Rank(@, S)]
       /\ now = Rank(2, S)
  /\ history = "none"
  /\ ops = 0
  \* a fresh hook instance: lines 45-50 (refs and state), and a new editor
  /\ editor = EmptyDoc
  /\ lastServerSavedContent = NullString
  /\ isSaving = FALSE
  /\ hasUnsavedChanges = FALSE
  /\ isLoadingContent = FALSE
  /\ contentLoadError = "null"
  /\ hasInitiallyLoaded = FALSE
  /\ loadPhase = "idle"
  /\ loadLocal = NullContent
  /\ loadSource = "unset"
  /\ listening = FALSE
  /\ depsLoaded = FALSE
  /\ localTimers = {}
  /\ serverTimers = {}
  /\ localSaveTimeoutId = {}
  /\ serverSaveTimeoutId = {}
  /\ saves = <<>>
  /\ callbacks = {}
  /\ lastStep = "init"
  /\ submits = <<>>
  /\ failure = "none"
  /\ articleId = "a1"
  /\ loads = [a \in ArticleIds |-> 0]
  /\ sinceUpdate = SERVER_SAVE_DELAY
  /\ cacheFresh = FALSE
  /\ flushAttempted = FALSE
  /\ docNodes = <<>>
  /\ previousImages = <<>>
  /\ deletedImages = <<>>
  /\ deletionRequested = {}
  /\ deletions = <<>>
  /\ deletionOutcome = NoOutcome
  /\ monitoring = FALSE
  /\ imageStep = "init"

\* the hook as constructed, its history variables not recorded
Init == InitHook /\ instrumented = FALSE

\* the hook as constructed, its history variables recorded
InitInstrumented == InitHook /\ instrumented = TRUE

\* ----------------------------------------------------------- the handlers
\* setSavedContent(value) of useLocalStorage: the entry it leaves; a write
\* that fails (ok false: storage quota, storage unavailable) leaves the entry
setSavedContent(ok, value) == IF ok THEN value ELSE savedContent

\* saveContent as it would be with a test for unchanged content
saveContent_skipUnchanged(ok) ==
  LET content == editor IN
  IF ~isValidContent(content)
    THEN savedContent
    ELSE IF savedContent.exists /\ savedContent.content = content
      THEN savedContent
      ELSE setSavedContent(ok, EditorContent(content, now, NoTitle))

\* saveContent, lines 234-257: the local cache entry it leaves
saveContent(ok) ==
  LET content == editor IN
  IF ~isValidContent(content)
    THEN savedContent
    ELSE setSavedContent(ok, EditorContent(content, now, NoTitle))

\* what saveContent caught (line 254): the error of a write that failed
saveContentFailure(ok) ==
  IF isValidContent(editor) /\ ~ok THEN "caught" ELSE "none"

\* saveToServer gets as far as capturing the editor content: the tests of
\* lines 207 and 213
Captures ==
  enabled /\ ~isSaving /\ JSONstringify(editor) # lastServerSavedContent

\* Whether the cache entry holds the newest edit after a step that flushed
\* to it (saveContent, line 253) or captured a payload for the remote store
\* (line 208): a flush of an edited document makes it so; a payload captured
\* from other content than the cached one is newer than the cache entry.
cacheFreshAfter(flushed, captured) ==
  IF flushed THEN history = "edited"
  ELSE cacheFresh /\ (captured => editor = savedContent.content)

\* saveToServer as it would be without the isSaving test of line 207
saveToServer_noInFlightGuard ==
  IF ~enabled THEN UNCHANGED saveVars
  ELSE LET content == editor
           contentString == JSONstringify(content)
       IN IF contentString = lastServerSavedContent
            THEN isSaving' = FALSE /\ UNCHANGED saves
            ELSE /\ isSaving' = TRUE
                 /\ saves' = Append(saves, [content |-> content,
                                            contentString |-> contentString,
                                            stored |-> FALSE])

\* saveToServer as it would be without the comparison of line 213
saveToServer_noChangeTest ==
  IF ~enabled \/ isSaving THEN UNCHANGED saveVars
  ELSE LET content == editor
           contentString == JSONstringify(content)
       IN /\ isSaving' = TRUE
          /\ saves' = Append(saves, [content |-> content,
                                     contentString |-> contentString,
                                     stored |-> FALSE])

\* saveToServer as it would be without the enabled test of line 207
saveToServer_noEnabledGuard ==
  IF isSaving THEN UNCHANGED saveVars
  ELSE LET content == editor
           contentString == JSONstringify(content)
       IN IF contentString = lastServerSavedContent
            THEN isSaving' = FALSE /\ UNCHANGED saves
            ELSE /\ isSaving' = TRUE
                 /\ saves' = Append(saves, [content |-> content,
                                            contentString |-> contentString,
                                            stored |-> FALSE])

\* saveToServer up to its await, lines 206-220 (and the finally of an early
\* return, line 229)
saveToServer ==
  IF ~enabled \/ isSaving THEN UNCHANGED saveVars
  ELSE LET content == editor
           contentString == JSONstringify(content)
       IN IF contentString = lastServerSavedContent
            THEN isSaving' = FALSE /\ UNCHANGED saves
            ELSE /\ isSaving' = TRUE
                 /\ saves' = Append(saves, [content |-> content,
                                            contentString |-> contentString,
                                            stored |-> FALSE])

\* clearTimeout(id) on a set of pending timers
clearTimeout(timers, id) == timers \ id

\* handleUpdate as it would be without the clearTimeout calls of lines 272-273
handleUpdate_noCancel ==
  /\ hasUnsavedChanges' = TRUE
  /\ localTimers' = localTimers \cup {LOCAL_SAVE_DELAY}
  /\ localSaveTimeoutId' = {LOCAL_SAVE_DELAY}
  /\ IF enabled
       THEN /\ serverTimers' = serverTimers \cup {SERVER_SAVE_DELAY}
            /\ serverSaveTimeoutId' = {SERVER_SAVE_DELAY}
       ELSE UNCHANGED <<serverTimers, serverSaveTimeoutId>>
  /\ sinceUpdate' = 0

\* handleUpdate as it would be without the test of enabled of line 281
handleUpdate_alwaysRemote ==
  /\ hasUnsavedChanges' = TRUE
  /\ localTimers' = clearTimeout(localTimers, localSaveTimeoutId)
                      \cup {LOCAL_SAVE_DELAY}
  /\ localSaveTimeoutId' = {LOCAL_SAVE_DELAY}
  /\ serverTimers' = clearTimeout(serverTimers, serverSaveTimeoutId)
                       \cup {SERVER_SAVE_DELAY}
  /\ serverSaveTimeoutId' = {SERVER_SAVE_DELAY}
  /\ sinceUpdate' = 0

\* handleUpdate, lines 266-291
handleUpdate ==
  /\ hasUnsavedChanges' = TRUE
  /\ localTimers' = clearTimeout(localTimers, localSaveTimeoutId)
                      \cup {LOCAL_SAVE_DELAY}
  /\ localSaveTimeoutId' = {LOCAL_SAVE_DELAY}
  /\ IF enabled
       THEN /\ serverTimers' = clearTimeout(serverTimers, serverSaveTimeoutId)
                                 \cup {SERVER_SAVE_DELAY}
            /\ serverSaveTimeoutId' = {SERVER_SAVE_DELAY}
       ELSE /\ serverTimers' = clearTimeout(serverTimers, serverSaveTimeoutId)
            /\ UNCHANGED serverSaveTimeoutId
  /\ sinceUpdate' = 0

\* loadApply as it would be without setSavedContent of lines 154-157
loadApply_noPersist(localContent, data) ==
  LET r == getMostRecentContent(localContent, data) IN
  /\ loadSource' = r.source
  /\ IF r.content.exists
       THEN /\ Stores(savedContent, remoteDraft, NullContent, now)
            /\ editor' = r.content.content
            /\ lastServerSavedContent' = JSONstringify(r.content.content)
       ELSE /\ editor' = EmptyDoc
            /\ Stores(savedContent, remoteDraft, NullContent, now)
            /\ UNCHANGED lastServerSavedContent
  /\ hasUnsavedChanges' = FALSE
  /\ isLoadingContent' = FALSE
  /\ loadPhase' = "done"
  /\ cacheFresh' = (/\ instrumented /\ cacheFresh /\ r.source = "local"
                    /\ savedContent.content = r.content.content)
  /\ flushAttempted' = (instrumented /\ flushAttempted /\ editor' = editor)

\* loadInitialContent from getMostRecentContent on, lines 144-182
loadApply(localContent, data) ==
  LET r == getMostRecentContent(localContent, data) IN
  /\ loadSource' = r.source
  /\ IF r.content.exists
       THEN /\ Stores(IF r.source = "server" THEN r.content ELSE savedContent,
                      remoteDraft, NullContent, now)
            /\ editor' = r.content.content
            /\ lastServerSavedContent' = JSONstringify(r.content.content)
       ELSE /\ editor' = EmptyDoc
            /\ Stores(savedContent, remoteDraft, NullContent, now)
            /\ UNCHANGED lastServerSavedContent
  /\ hasUnsavedChanges' = FALSE
  /\ isLoadingContent' = FALSE
  /\ loadPhase' = "done"
  /\ cacheFresh' = (/\ instrumented /\ cacheFresh /\ r.source = "local"
                    /\ savedContent.content = r.content.content)
  /\ flushAttempted' = (instrumented /\ flushAttempted /\ editor' = editor)

\* The commit that first has an editor: the load effect (lines 119-186)
\* runs loadInitialContent up to its await, or to its end when remote
\* saving is off; then the auto-save effect (lines 260-294) subscribes
\* handleUpdate, hasInitiallyLoaded.current being true by then.
Mount ==
  /\ loadPhase = "idle" /\ ~hasInitiallyLoaded
  /\ hasInitiallyLoaded' = TRUE
  /\ contentLoadError' = "null"
  /\ IF enabled
       THEN /\ isLoadingContent' = TRUE
            /\ loadPhase' = "fetching"
            /\ Stores(savedContent, remoteDraft, savedContent, now)
            /\ UNCHANGED <<editor, lastServerSavedContent, hasUnsavedChanges,
                           loadSource, cacheFresh,
                           flushAttempted>>
       ELSE loadApply(savedContent, NullArticle)
  /\ listening' = TRUE
  /\ depsLoaded' = FALSE
  /\ localSaveTimeoutId' = {}
  /\ serverSaveTimeoutId' = {}
  /\ callbacks' = {}
  /\ lastStep' = "Mount"
  /\ failure' = "none"
  /\ loads' = [loads EXCEPT ![articleId] = @ + 1]
  /\ UNCHANGED <<submits, articleId, imageVars>>
  /\ history' = IF history = "edited" THEN "none" ELSE history
  /\ UNCHANGED <<enabled, instrumented,
                 saveVars, localTimers, serverTimers, sinceUpdate, ops>>

\* FetchResolve as it would be if the local record were read again when the
\* fetch settles, not taken from the closure of line 129
FetchResolve_freshLocal ==
  /\ loadPhase = "fetching"
  /\ remoteDraft.exists
  /\ callbacks' = {"onFetchSuccess"}
  /\ lastStep' = "FetchResolve"
  /\ failure' = "none"
  /\ loadApply(savedContent, remoteDraft)
  /\ history' = IF history = "edited" THEN "none" ELSE history
  /\ UNCHANGED <<enabled, instrumented,
                 saveVars, hasInitiallyLoaded, contentLoadError,
                 subVars, timerVars, ops, submits, navVars, imageVars>>

\* the fetch resolves with the remote draft, lines 135-137, then 144-182
FetchResolve ==
  /\ loadPhase = "fetching"
  /\ remoteDraft.exists
  /\ callbacks' = {"onFetchSuccess"}
  /\ lastStep' = "FetchResolve"
  /\ failure' = "none"
  /\ UNCHANGED <<submits, navVars, imageVars>>
  /\ loadApply(loadLocal, remoteDraft)
  /\ history' = IF history = "edited" THEN "none" ELSE history
  /\ UNCHANGED <<enabled, instrumented,
                 saveVars, hasInitiallyLoaded, contentLoadError,
                 subVars, timerVars, ops>>

\* FetchReject as it would be if the error reached the outer catch, lines
\* 172-179
FetchReject_fatal ==
  /\ loadPhase = "fetching"
  /\ callbacks' = {"onFetchError"}
  /\ lastStep' = "FetchReject"
  /\ cacheFresh' = FALSE
  /\ flushAttempted' = (instrumented /\ flushAttempted /\ editor = EmptyDoc)
  /\ failure' = "none"
  /\ contentLoadError' = "Unknown error"
  /\ editor' = EmptyDoc
  /\ Stores(savedContent, remoteDraft, NullContent, now)
  /\ loadSource' = "none"
  /\ isLoadingContent' = FALSE
  /\ loadPhase' = "done"
  /\ history' = IF history = "edited" THEN "none" ELSE history
  /\ UNCHANGED <<enabled, instrumented,
                 saveVars, hasInitiallyLoaded, lastServerSavedContent,
                 hasUnsavedChanges, subVars, timerVars, ops, submits, navVars, imageVars>>

\* the fetch rejects, lines 138-141, then 144-182 with serverData null
FetchReject ==
  /\ loadPhase = "fetching"
  /\ callbacks' = {"onFetchError"}
  /\ lastStep' = "FetchReject"
  /\ failure' = "none"
  /\ UNCHANGED <<submits, navVars, imageVars>>
  /\ loadApply(loadLocal, NullArticle)
  /\ history' = IF history = "edited" THEN "none" ELSE history
  /\ UNCHANGED <<enabled, instrumented,
                 saveVars, hasInitiallyLoaded, contentLoadError,
                 subVars, timerVars, ops>>

\* sinceUpdate is kept for as long as a timer is pending
sinceWhile(pending, since) == IF pending = {} THEN SERVER_SAVE_DELAY ELSE since

\* Rerender as it would be without the clearTimeout calls of lines 298-299
Rerender_noCleanup ==
  /\ depsLoaded # hasInitiallyLoaded
  /\ localSaveTimeoutId' = {}
  /\ serverSaveTimeoutId' = {}
  /\ listening' = hasInitiallyLoaded
  /\ depsLoaded' = hasInitiallyLoaded
  /\ callbacks' = {}
  /\ lastStep' = "Rerender"
  /\ UNCHANGED cacheFresh
  /\ flushAttempted' = (instrumented /\ flushAttempted /\ serverTimers' # {})
  /\ failure' = "none"
  /\ UNCHANGED <<submits, navVars, imageVars>>
  /\ UNCHANGED <<enabled, instrumented,
                 editor, stampVars, lastServerSavedContent, saveVars,
                 hasUnsavedChanges, loadVars, history, ops, localTimers,
                 serverTimers, sinceUpdate>>

\* A render that sees hasInitiallyLoaded.current changed in the deps of the
\* auto-save effect (line 301): the cleanup (lines 296-300) runs, then the
\* effect again (lines 261-294) with fresh closure variables.
Rerender ==
  /\ depsLoaded # hasInitiallyLoaded
  /\ localTimers' = clearTimeout(localTimers, localSaveTimeoutId)
  /\ serverTimers' = clearTimeout(serverTimers, serverSaveTimeoutId)
  /\ localSaveTimeoutId' = {}
  /\ serverSaveTimeoutId' = {}
  /\ sinceUpdate' = sinceWhile(localTimers' \cup serverTimers', sinceUpdate)
  /\ listening' = hasInitiallyLoaded
  /\ depsLoaded' = hasInitiallyLoaded
  /\ callbacks' = {}
  /\ lastStep' = "Rerender"
  /\ UNCHANGED cacheFresh
  /\ flushAttempted' = (instrumented /\ flushAttempted /\ serverTimers' # {})
  /\ failure' = "none"
  /\ UNCHANGED <<submits, navVars, imageVars>>
  /\ UNCHANGED <<enabled, instrumented,
                 editor, stampVars, lastServerSavedContent, saveVars,
                 hasUnsavedChanges, loadVars, history, ops>>

\* the user edits: the editor holds a new document and emits "update"
Update(d) ==
  /\ ops < MaxOps
  /\ ops' = ops + 1
  /\ d # editor
  /\ editor' = d
  /\ IF listening
       THEN handleUpdate
       ELSE UNCHANGED <<hasUnsavedChanges, timerVars>>
  /\ callbacks' = {}
  /\ lastStep' = IF listening THEN "handleUpdate" ELSE "Update"
  /\ cacheFresh' = FALSE
  /\ flushAttempted' = FALSE
  /\ failure' = "none"
  /\ UNCHANGED <<submits, navVars, imageVars>>
  /\ history' = IF listening /\ loadPhase = "done" THEN "edited" ELSE "none"
  /\ UNCHANGED <<enabled, instrumented,
                 stampVars, lastServerSavedContent, saveVars, loadVars,
                 subVars>>

\* The local timer fires, lines 276-278.  The id of a timer that fired names
\* no timer any more (clearTimeout of it does nothing), so it is forgotten.
LocalTimerFire ==
  \E t \in localTimers :
    /\ t = 0
    /\ localTimers' = localTimers \ {t}
    /\ localSaveTimeoutId' = localSaveTimeoutId \ {t}
    /\ sinceUpdate' = sinceWhile(localTimers' \cup serverTimers, sinceUpdate)
    /\ \E ok \in BOOLEAN :
         /\ Stores(saveContent(ok), remoteDraft, loadLocal, now)
         /\ failure' = saveContentFailure(ok)
         /\ cacheFresh' = (/\ instrumented
                           /\ cacheFreshAfter(isValidContent(editor) /\ ok, FALSE))
         /\ flushAttempted' = (instrumented /\ serverTimers # {})
    /\ callbacks' = {}
    /\ lastStep' = "LocalTimerFire"
    /\ UNCHANGED <<submits, navVars, imageVars>>
    /\ UNCHANGED <<enabled, instrumented,
                   editor, lastServerSavedContent, saveVars,
                   hasUnsavedChanges, loadVars, subVars, serverTimers,
                   serverSaveTimeoutId, history, ops>>

\* the remote timer fires, lines 282-284
ServerTimerFire ==
  \E t \in serverTimers :
    /\ t = 0
    /\ serverTimers' = serverTimers \ {t}
    /\ serverSaveTimeoutId' = serverSaveTimeoutId \ {t}
    /\ sinceUpdate' = sinceWhile(localTimers \cup serverTimers', sinceUpdate)
    /\ saveToServer
    /\ callbacks' = {}
    /\ lastStep' = "ServerTimerFire"
    /\ cacheFresh' = (instrumented /\ cacheFreshAfter(FALSE, Captures))
    /\ flushAttempted' = (instrumented /\ flushAttempted /\ serverTimers' # {})
    /\ failure' = "none"
    /\ UNCHANGED <<submits, navVars, imageVars>>
    /\ UNCHANGED <<enabled, instrumented,
                   editor, stampVars, lastServerSavedContent,
                   hasUnsavedChanges, loadVars, subVars, localTimers,
                   localSaveTimeoutId, history, ops>>

\* manualSave as it would be if it cancelled the debounce timers
manualSave_cancelTimers ==
  /\ ops < MaxOps
  /\ ops' = ops + 1
  /\ hasInitiallyLoaded
  /\ \E ok \in BOOLEAN :
       /\ Stores(saveContent(ok), remoteDraft, loadLocal, now)
       /\ failure' = saveContentFailure(ok)
       /\ cacheFresh' = (/\ instrumented
                         /\ cacheFreshAfter(isValidContent(editor) /\ ok, Captures))
       /\ flushAttempted' = (instrumented /\ serverTimers # {})
  /\ IF enabled THEN saveToServer ELSE UNCHANGED saveVars
  /\ localTimers' = clearTimeout(localTimers, localSaveTimeoutId)
  /\ serverTimers' = clearTimeout(serverTimers, serverSaveTimeoutId)
  /\ localSaveTimeoutId' = {}
  /\ serverSaveTimeoutId' = {}
  /\ sinceUpdate' = sinceWhile(localTimers' \cup serverTimers', sinceUpdate)
  /\ callbacks' = {}
  /\ lastStep' = "manualSave"
  /\ history' = IF history = "edited" THEN "edited" ELSE "none"
  /\ UNCHANGED <<enabled, instrumented,
                 editor, lastServerSavedContent, hasUnsavedChanges,
                 loadVars, subVars, submits, navVars, imageVars>>

\* manualSave, lines 304-309
manualSave ==
  /\ ops < MaxOps
  /\ ops' = ops + 1
  /\ hasInitiallyLoaded
  /\ \E ok \in BOOLEAN :
       /\ Stores(saveContent(ok), remoteDraft, loadLocal, now)
       /\ failure' = saveContentFailure(ok)
       /\ cacheFresh' = (/\ instrumented
                         /\ cacheFreshAfter(isValidContent(editor) /\ ok, Captures))
       /\ flushAttempted' = (instrumented /\ serverTimers # {})
  /\ IF enabled THEN saveToServer ELSE UNCHANGED saveVars
  /\ callbacks' = {}
  /\ lastStep' = "manualSave"
  /\ UNCHANGED <<submits, navVars, imageVars>>
  /\ history' = IF history = "edited" THEN "edited" ELSE "none"
  /\ UNCHANGED <<enabled, instrumented,
                 editor, lastServerSavedContent, hasUnsavedChanges,
                 loadVars, subVars, timerVars>>

\* clearContent as it would be without the reset of the marker, line 317
clearContent_keepMarker ==
  /\ ops < MaxOps
  /\ ops' = ops + 1
  /\ hasInitiallyLoaded
  /\ Stores(NullContent, remoteDraft, loadLocal, now)
  /\ editor' = EmptyDoc
  /\ hasUnsavedChanges' = FALSE
  /\ callbacks' = {}
  /\ lastStep' = "clearContent"
  /\ cacheFresh' = FALSE
  /\ flushAttempted' = (instrumented /\ flushAttempted /\ editor = EmptyDoc)
  /\ failure' = "none"
  /\ history' = "cleared"
  /\ UNCHANGED <<enabled, instrumented,
                 lastServerSavedContent, saveVars, loadVars, subVars,
                 timerVars, submits, navVars, imageVars>>

\* clearContent as it would be if it also abandoned the remote save in
\* flight
clearContent_cancelsSave ==
  /\ ops < MaxOps
  /\ ops' = ops + 1
  /\ hasInitiallyLoaded
  /\ Stores(NullContent, remoteDraft, loadLocal, now)
  /\ editor' = EmptyDoc
  /\ lastServerSavedContent' = NullString
  /\ hasUnsavedChanges' = FALSE
  /\ isSaving' = FALSE
  /\ saves' = <<>>
  /\ callbacks' = {}
  /\ lastStep' = "clearContent"
  /\ cacheFresh' = FALSE
  /\ flushAttempted' = (instrumented /\ flushAttempted /\ editor = EmptyDoc)
  /\ failure' = "none"
  /\ history' = "cleared"
  /\ UNCHANGED <<enabled, instrumented,
                 loadVars, subVars, timerVars, submits, navVars, imageVars>>

\* clearContent, lines 312-320
clearContent ==
  /\ ops < MaxOps
  /\ ops' = ops + 1
  /\ hasInitiallyLoaded
  /\ Stores(NullContent, remoteDraft, loadLocal, now)
  /\ editor' = EmptyDoc
  /\ lastServerSavedContent' = NullString
  /\ hasUnsavedChanges' = FALSE
  /\ callbacks' = {}
  /\ lastStep' = "clearContent"
  /\ cacheFresh' = FALSE
  /\ flushAttempted' = (instrumented /\ flushAttempted /\ editor = EmptyDoc)
  /\ failure' = "none"
  /\ UNCHANGED <<submits, navVars, imageVars>>
  /\ history' = "cleared"
  /\ UNCHANGED <<enabled, instrumented, saveVars, loadVars, subVars, timerVars>>

\* the sequence without its i-th element
RemoveAt(s, i) == [j \in 1..(Len(s) - 1) |-> IF j < i THEN s[j] ELSE s[j + 1]]

\* the remote store processes a draft save (POST article-draft/save-draft,
\* lines 192-198) and stamps it with its clock
ServerStore ==
  \E i \in 1..Len(saves) :
    /\ ~saves[i].stored
    /\ Stores(savedContent, ArticleMetadata(saves[i].content, now), loadLocal, now)
    /\ saves' = [saves EXCEPT ![i].stored = TRUE]
    /\ callbacks' = {}
    /\ lastStep' = "ServerStore"
    /\ UNCHANGED cacheFresh
    /\ UNCHANGED flushAttempted
    /\ failure' = "none"
    /\ UNCHANGED <<submits, navVars, imageVars>>
    /\ UNCHANGED <<enabled, instrumented,
                   editor, lastServerSavedContent, isSaving,
                   hasUnsavedChanges, loadVars, subVars, timerVars, history, ops>>

\* SaveResolve as it would be if a flush skipped during the save were queued
\* and issued when the save completes
SaveResolve_flushQueued ==
  \E i \in 1..Len(saves) :
    /\ saves[i].stored
    /\ lastServerSavedContent' = saves[i].contentString
    /\ hasUnsavedChanges' = FALSE
    /\ callbacks' = {"onSaveSuccess"}
    /\ lastStep' = "SaveResolve"
    /\ UNCHANGED cacheFresh
    /\ UNCHANGED flushAttempted
    /\ failure' = "none"
    /\ IF JSONstringify(editor) # saves[i].contentString
         THEN /\ isSaving' = TRUE
              /\ saves' = Append(RemoveAt(saves, i),
                                 [content |-> editor,
                                  contentString |-> JSONstringify(editor),
                                  stored |-> FALSE])
         ELSE /\ isSaving' = FALSE
              /\ saves' = RemoveAt(saves, i)
    /\ UNCHANGED <<enabled, instrumented,
                   editor, stampVars, loadVars, subVars, timerVars,
                   history, ops, submits, navVars, imageVars>>

\* SaveResolve as it would be if line 222 serialized the editor again when
\* the save completes
SaveResolve_markerFromEditor ==
  \E i \in 1..Len(saves) :
    /\ saves[i].stored
    /\ lastServerSavedContent' = JSONstringify(editor)
    /\ hasUnsavedChanges' = FALSE
    /\ callbacks' = {"onSaveSuccess"}
    /\ lastStep' = "SaveResolve"
    /\ UNCHANGED cacheFresh
    /\ UNCHANGED flushAttempted
    /\ failure' = "none"
    /\ isSaving' = FALSE
    /\ saves' = RemoveAt(saves, i)
    /\ UNCHANGED <<enabled, instrumented,
                   editor, stampVars, loadVars, subVars, timerVars,
                   history, ops, submits, navVars, imageVars>>

\* saveFunction resolves: lines 222-224, then finally, line 229
SaveResolve ==
  \E i \in 1..Len(saves) :
    /\ saves[i].stored
    /\ lastServerSavedContent' = saves[i].contentString
    /\ hasUnsavedChanges' = FALSE
    /\ callbacks' = {"onSaveSuccess"}
    /\ lastStep' = "SaveResolve"
    /\ UNCHANGED cacheFresh
    /\ UNCHANGED flushAttempted
    /\ failure' = "none"
    /\ UNCHANGED <<submits, navVars, imageVars>>
    /\ isSaving' = FALSE
    /\ saves' = RemoveAt(saves, i)
    /\ UNCHANGED <<enabled, instrumented,
                   editor, stampVars, loadVars, subVars, timerVars,
                   history, ops>>

\* SaveReject as it would be if the catch of line 225 went on as after a
\* success (marker and dirty flag updated)
SaveReject_asSuccess ==
  \E i \in 1..Len(saves) :
    /\ callbacks' = {"onSaveError"}
    /\ lastStep' = "SaveReject"
    /\ UNCHANGED cacheFresh
    /\ UNCHANGED flushAttempted
    /\ failure' = "none"
    /\ lastServerSavedContent' = saves[i].contentString
    /\ hasUnsavedChanges' = FALSE
    /\ isSaving' = FALSE
    /\ saves' = RemoveAt(saves, i)
    /\ UNCHANGED <<enabled, instrumented,
                   editor, stampVars, loadVars, subVars, timerVars,
                   history, ops, submits, navVars, imageVars>>

\* SaveReject as it would be if the catch of line 225 scheduled a retry
SaveReject_retryLater ==
  \E i \in 1..Len(saves) :
    /\ callbacks' = {"onSaveError"}
    /\ lastStep' = "SaveReject"
    /\ UNCHANGED cacheFresh
    /\ UNCHANGED flushAttempted
    /\ failure' = "none"
    /\ isSaving' = FALSE
    /\ saves' = RemoveAt(saves, i)
    /\ serverTimers' = clearTimeout(serverTimers, serverSaveTimeoutId)
                         \cup {SERVER_SAVE_DELAY}
    /\ serverSaveTimeoutId' = {SERVER_SAVE_DELAY}
    /\ sinceUpdate' = IF localTimers \cup serverTimers = {} THEN 0 ELSE sinceUpdate
    /\ UNCHANGED <<enabled, instrumented,
                   editor, stampVars, lastServerSavedContent,
                   hasUnsavedChanges, loadVars, subVars, localTimers,
                   localSaveTimeoutId, history, ops, submits, navVars, imageVars>>

\* saveFunction rejects: lines 225-227, then finally, line 229
SaveReject ==
  \E i \in 1..Len(saves) :
    /\ callbacks' = {"onSaveError"}
    /\ lastStep' = "SaveReject"
    /\ UNCHANGED cacheFresh
    /\ UNCHANGED flushAttempted
    /\ failure' = "none"
    /\ UNCHANGED <<submits, navVars, imageVars>>
    /\ isSaving' = FALSE
    /\ saves' = RemoveAt(saves, i)
    /\ UNCHANGED <<enabled, instrumented,
                   editor, stampVars, lastServerSavedContent,
                   hasUnsavedChanges, loadVars, subVars, timerVars, history, ops>>

\* submitContent up to its await, lines 323-350: an invalid document is
\* thrown (line 337) and rethrown to the caller by the catch (line 360)
submitContent ==
  /\ ops < MaxOps
  /\ ops' = ops + 1
  /\ hasInitiallyLoaded
  /\ LET jsonContent == editor IN
     IF ~isValidContent(jsonContent)
       THEN /\ failure' = "thrown"
            /\ UNCHANGED submits
       ELSE /\ failure' = "none"
            /\ submits' = Append(submits, JSONstringify(jsonContent))
  /\ callbacks' = {}
  /\ lastStep' = "submitContent"
  /\ UNCHANGED cacheFresh
  /\ UNCHANGED flushAttempted
  /\ UNCHANGED <<enabled, instrumented,
                 editor, stampVars, lastServerSavedContent, saveVars,
                 hasUnsavedChanges, loadVars, subVars, timerVars, history,
                 navVars, imageVars>>

\* the POST of submitContent resolves: lines 352-357
SubmitResolve ==
  \E i \in 1..Len(submits) :
    /\ lastServerSavedContent' = submits[i]
    /\ hasUnsavedChanges' = FALSE
    /\ submits' = RemoveAt(submits, i)
    /\ failure' = "none"
    /\ callbacks' = {}
    /\ lastStep' = "SubmitResolve"
    /\ UNCHANGED cacheFresh
    /\ UNCHANGED flushAttempted
    /\ UNCHANGED <<enabled, instrumented,
                   editor, stampVars, saveVars, loadVars, subVars,
                   timerVars, history, ops, navVars, imageVars>>

\* the POST of submitContent rejects: the catch logs and rethrows, lines 358-361
SubmitReject ==
  \E i \in 1..Len(submits) :
    /\ submits' = RemoveAt(submits, i)
    /\ failure' = "thrown"
    /\ callbacks' = {}
    /\ lastStep' = "SubmitReject"
    /\ UNCHANGED cacheFresh
    /\ UNCHANGED flushAttempted
    /\ UNCHANGED <<enabled, instrumented,
                   editor, stampVars, lastServerSavedContent, saveVars,
                   hasUnsavedChanges, loadVars, subVars, timerVars, history,
                   ops, navVars, imageVars>>

\* The page is reloaded: the hook instance, its editor, its timers and its
\* pending continuations are gone; the local cache and the remote store stay.
Reload ==
  /\ ops < MaxOps
  /\ ops' = ops + 1
  /\ hasInitiallyLoaded
  /\ editor' = EmptyDoc
  /\ lastServerSavedContent' = NullString
  /\ isSaving' = FALSE
  /\ hasUnsavedChanges' = FALSE
  /\ isLoadingContent' = FALSE
  /\ contentLoadError' = "null"
  /\ hasInitiallyLoaded' = FALSE
  /\ loadPhase' = "idle"
  /\ loadSource' = "unset"
  /\ listening' = FALSE
  /\ depsLoaded' = FALSE
  /\ localTimers' = {}
  /\ serverTimers' = {}
  /\ localSaveTimeoutId' = {}
  /\ serverSaveTimeoutId' = {}
  /\ sinceUpdate' = SERVER_SAVE_DELAY
  /\ saves' = <<>>
  /\ callbacks' = {}
  /\ lastStep' = "Reload"
  /\ UNCHANGED cacheFresh
  /\ flushAttempted' = FALSE
  /\ failure' = "none"
  /\ submits' = <<>>
  /\ loads' = [a \in ArticleIds |-> 0]
  /\ UNCHANGED <<articleId, imageVars>>
  /\ history' = IF history \in {"cleared", "reloaded"} THEN "reloaded" ELSE "none"
  /\ Stores(savedContent, remoteDraft, NullContent, now)
  /\ UNCHANGED <<enabled, instrumented>>

\* a second passes; a timer that is due fires before the next second does
Tick ==
  /\ \A t \in localTimers \cup serverTimers : t > 0
  /\ localTimers' = {t - 1 : t \in localTimers}
  /\ serverTimers' = {t - 1 : t \in serverTimers}
  /\ localSaveTimeoutId' = {t - 1 : t \in localSaveTimeoutId}
  /\ serverSaveTimeoutId' = {t - 1 : t \in serverSaveTimeoutId}
  /\ sinceUpdate' = IF sinceUpdate < SERVER_SAVE_DELAY THEN sinceUpdate + 1
                    ELSE sinceUpdate
  /\ Stores(savedContent, remoteDraft, loadLocal, now + 1)
  /\ callbacks' = {}
  /\ lastStep' = "Tick"
  /\ UNCHANGED cacheFresh
  /\ UNCHANGED flushAttempted
  /\ failure' = "none"
  /\ UNCHANGED <<submits, navVars, imageVars>>
  /\ UNCHANGED <<enabled, instrumented,
                 editor, lastServerSavedContent, saveVars,
                 hasUnsavedChanges, loadVars, subVars, history, ops>>

Next ==
  \/ Mount
  \/ FetchResolve
  \/ FetchReject
  \/ Rerender
  \/ \E d \in Docs : Update(d)
  \/ LocalTimerFire
  \/ ServerTimerFire
  \/ manualSave
  \/ clearContent
  \/ ServerStore
  \/ SaveResolve
  \/ SaveReject
  \/ Reload
  \/ Tick

\* the draft path: load, edits, debounced and manual flushes, clear, reload
Spec == Init /\ [][Next]_vars

\* the draft path with the history variables recorded
SpecInstrumented == InitInstrumented /\ [][Next]_vars

\* what the local cache and the remote store hold for another article
OtherLocal == {NullContent, EditorContent(DocB, 0, NoTitle)}
OtherRemote == {NullArticle, ArticleMetadata(DocB, 0)}

\* The hook is rendered with another articleId once the load of the first
\* is over and the listener is re-subscribed.  The load effect runs again,
\* its deps (line 186) having changed, and returns at line 120 because
\* hasInitiallyLoaded.current is still true; savedContent is now the entry
\* under the new storageKey (line 40) and the remote draft that of the new id.
setArticleId ==
  /\ ops < MaxOps
  /\ ops' = ops + 1
  /\ articleId = "a1"
  /\ hasInitiallyLoaded /\ loadPhase = "done" /\ depsLoaded
  /\ localTimers = {} /\ serverTimers = {} /\ saves = <<>> /\ submits = <<>>
  /\ articleId' = "a2"
  /\ \E l \in OtherLocal, r \in OtherRemote : Stores(l, r, NullContent, now)
  /\ callbacks' = {}
  /\ lastStep' = "setArticleId"
  /\ cacheFresh' = FALSE
  /\ flushAttempted' = FALSE
  /\ failure' = "none"
  /\ history' = "none"
  /\ UNCHANGED <<enabled, instrumented,
                 editor, lastServerSavedContent, saveVars,
                 hasUnsavedChanges, loadVars, subVars, timerVars, submits, loads,
                 imageVars>>

\* the load path of a hook whose articleId changes
NextNav ==
  \/ Mount
  \/ FetchResolve
  \/ FetchReject
  \/ Rerender
  \/ Reload
  \/ setArticleId

SpecNav == Init /\ [][NextNav]_vars

\* the draft path together with final submission
\* onSaveSuccessThrows as it would be if the flag were released at the end
\* of the try block and not in a finally
onSaveSuccessThrows_noFinally ==
  \E i \in 1..Len(saves), again \in BOOLEAN :
    /\ saves[i].stored
    /\ lastServerSavedContent' = saves[i].contentString
    /\ hasUnsavedChanges' = FALSE
    /\ callbacks' = {"onSaveSuccess", "onSaveError"}
    /\ lastStep' = "SaveResolve"
    /\ UNCHANGED cacheFresh
    /\ UNCHANGED flushAttempted
    /\ failure' = IF again THEN "thrown" ELSE "caught"
    /\ isSaving' = TRUE
    /\ saves' = RemoveAt(saves, i)
    /\ UNCHANGED <<enabled, instrumented,
                   editor, stampVars, loadVars, subVars, timerVars,
                   history, ops, submits, navVars, imageVars>>

\* saveFunction resolves and onSaveSuccess throws (line 224): the catch of
\* line 225 calls onSaveError with that error (line 227), which may throw
\* again; the finally of line 229 runs either way
onSaveSuccessThrows ==
  \E i \in 1..Len(saves), again \in BOOLEAN :
    /\ saves[i].stored
    /\ lastServerSavedContent' = saves[i].contentString
    /\ hasUnsavedChanges' = FALSE
    /\ callbacks' = {"onSaveSuccess", "onSaveError"}
    /\ lastStep' = "SaveResolve"
    /\ UNCHANGED cacheFresh
    /\ UNCHANGED flushAttempted
    /\ failure' = IF again THEN "thrown" ELSE "caught"
    /\ isSaving' = FALSE
    /\ saves' = RemoveAt(saves, i)
    /\ UNCHANGED <<enabled, instrumented,
                   editor, stampVars, loadVars, subVars, timerVars,
                   history, ops, submits, navVars, imageVars>>

\* saveFunction rejects and onSaveError throws (line 227): the finally of
\* line 229 runs and the promise of saveToServer rejects
onSaveErrorThrows ==
  \E i \in 1..Len(saves) :
    /\ callbacks' = {"onSaveError"}
    /\ lastStep' = "SaveReject"
    /\ UNCHANGED cacheFresh
    /\ UNCHANGED flushAttempted
    /\ failure' = "thrown"
    /\ isSaving' = FALSE
    /\ saves' = RemoveAt(saves, i)
    /\ UNCHANGED <<enabled, instrumented,
                   editor, stampVars, lastServerSavedContent,
                   hasUnsavedChanges, loadVars, subVars, timerVars, history,
                   ops, submits, navVars, imageVars>>

\* the draft path with save callbacks that may throw
NextCallbacks ==
  \/ Next
  \/ onSaveSuccessThrows
  \/ onSaveErrorThrows

SpecCallbacks == Init /\ [][NextCallbacks]_vars

\* the component calls the saveToServer that the hook returns (line 370)
saveToServerCall ==
  /\ ops < MaxOps
  /\ ops' = ops + 1
  /\ hasInitiallyLoaded
  /\ saveToServer
  /\ callbacks' = {}
  /\ lastStep' = "saveToServer"
  /\ cacheFresh' = (instrumented /\ cacheFreshAfter(FALSE, Captures))
  /\ UNCHANGED flushAttempted
  /\ failure' = "none"
  /\ UNCHANGED <<enabled, instrumented,
                 editor, stampVars, lastServerSavedContent,
                 hasUnsavedChanges, loadVars, subVars, timerVars, history,
                 submits, navVars, imageVars>>

\* the draft path with direct calls of saveToServer
NextDirect ==
  \/ Next
  \/ saveToServerCall

SpecDirect == Init /\ [][NextDirect]_vars

\* what the two stores may hold when their timestamps are free: a
\* lastModified or an updatedAt that new Date() cannot parse (lines 103-104)
\* gives an invalid date
PickLocal ==
  InitLocal \cup {EditorContent(DocA, t, NoTitle) : t \in {NaN, 0, 2}}
PickRemote ==
  InitRemote \cup {ArticleMetadata(DocB, NaN), ArticleMetadata(Malformed, NaN)}

\* a fresh hook instance over those stores
InitPick ==
  /\ enabled \in BOOLEAN
  /\ \E l \in PickLocal, r \in PickRemote :
       LET S == {l.lastModified, r.updatedAt, 2} \ {NaN} IN
       /\ savedContent = [l EXCEPT !.lastModified = Rank(@, S)]
       /\ remoteDraft = [r EXCEPT !.updatedAt = Rank(@, S)]
       /\ now = Rank(2, S)
  /\ history = "none"
  /\ ops = 0
  /\ editor = EmptyDoc
  /\ lastServerSavedContent = NullString
  /\ isSaving = FALSE
  /\ hasUnsavedChanges = FALSE
  /\ isLoadingContent = FALSE
  /\ contentLoadError = "null"
  /\ hasInitiallyLoaded = FALSE
  /\ loadPhase = "idle"
  /\ loadLocal = NullContent
  /\ loadSource = "unset"
  /\ listening = FALSE
  /\ depsLoaded = FALSE
  /\ localTimers = {}
  /\ serverTimers = {}
  /\ localSaveTimeoutId = {}
  /\ serverSaveTimeoutId = {}
  /\ saves = <<>>
  /\ callbacks = {}
  /\ lastStep = "init"
  /\ submits = <<>>
  /\ failure = "none"
  /\ articleId = "a1"
  /\ loads = [a \in ArticleIds |-> 0]
  /\ sinceUpdate = SERVER_SAVE_DELAY
  /\ instrumented = FALSE
  /\ cacheFresh = FALSE
  /\ flushAttempted = FALSE
  /\ docNodes = <<>>
  /\ previousImages = <<>>
  /\ deletedImages = <<>>
  /\ deletionRequested = {}
  /\ deletions = <<>>
  /\ deletionOutcome = NoOutcome
  /\ monitoring = FALSE
  /\ imageStep = "init"

\* the load path over stores with free timestamps
SpecPick == InitPick /\ [][NextNav]_vars

\* ------------------------------------------------- the image monitor
\* The nodes of a document as the image monitor sees them: their type name
\* and their src attribute ("" when there is none).
Nodes ==
  {[type |-> "image", src |-> "u1"], [type |-> "image", src |-> "u2"],
   [type |-> "imageUpload", src |-> "u1"], [type |-> "image", src |-> ""],
   [type |-> "paragraph", src |-> "u2"]}

\* getImagesFromDoc, lines 60-71
getImagesFromDoc(nodes) ==
  LET images == SelectSeq(nodes, LAMBDA node :
                    /\ node.type \in {"image", "imageUpload"}
                    /\ node.src # "")
  IN [i \in 1..Len(images) |-> images[i].src]

\* Array.prototype.includes
includes(array, x) == \E i \in 1..Len(array) : array[i] = x

\* the occurrences of x in an array
Occurrences(array, x) == Cardinality({i \in 1..Len(array) : array[i] = x})

\* handleUpdate as it would be if it compared how often an identifier occurs
monitorHandleUpdate_byCount(doc) ==
  LET currentImages == getImagesFromDoc(doc) IN
  /\ deletedImages' = SelectSeq(previousImages, LAMBDA img :
         Occurrences(currentImages, img) < Occurrences(previousImages, img))
  /\ previousImages' = currentImages

\* handleUpdate of the image monitor on the document after the update,
\* lines 77-92
monitorHandleUpdate(doc) ==
  LET currentImages == getImagesFromDoc(doc) IN
  /\ deletedImages' = SelectSeq(previousImages, LAMBDA img :
                                  ~includes(currentImages, img))
  /\ previousImages' = currentImages

\* the effect of the image monitor runs, lines 54-94: it takes the snapshot
\* (line 74) and subscribes handleUpdate (line 94)
MonitorMount ==
  /\ ~monitoring
  /\ monitoring' = TRUE
  /\ previousImages' = getImagesFromDoc(docNodes)
  /\ deletedImages' = <<>>
  /\ imageStep' = "mount"
  /\ UNCHANGED <<docNodes, deletionRequested, deletionVars, hookVars>>

\* a dep of the effect changes (line 99): the cleanup unsubscribes
\* (lines 96-98) and the effect runs again with a new snapshot
MonitorRerender ==
  /\ monitoring
  /\ previousImages' = getImagesFromDoc(docNodes)
  /\ deletedImages' = <<>>
  /\ imageStep' = "rerender"
  /\ UNCHANGED <<docNodes, deletionRequested, deletionVars, monitoring,
                 hookVars>>

\* the nodes of a document at the positions kept, in order
KeepNodes(nodes, kept) ==
  LET F[i \in 0..Len(nodes)] ==
        IF i = 0 THEN <<>>
        ELSE IF i \in kept THEN Append(F[i - 1], nodes[i]) ELSE F[i - 1]
  IN F[Len(nodes)]

\* An editor transaction removes some nodes and may add one; the editor
\* emits "update" and handleUpdate runs if it is subscribed.
DocUpdate ==
  \E kept \in SUBSET (1..Len(docNodes)), added \in SUBSET Nodes :
    /\ Cardinality(added) <= 1
    /\ LET rest == KeepNodes(docNodes, kept)
           doc == IF added = {} THEN rest
                  ELSE Append(rest, CHOOSE n \in added : TRUE)
       IN /\ doc # docNodes
          /\ Len(doc) <= MaxNodes
          /\ docNodes' = doc
          /\ IF monitoring
               THEN /\ monitorHandleUpdate(doc)
                    /\ deletionRequested' = deletionRequested \cup
                         {deletedImages'[i] : i \in 1..Len(deletedImages')}
                    /\ imageStep' = "handleUpdate"
               ELSE /\ UNCHANGED <<previousImages, deletedImages,
                                   deletionRequested>>
                    /\ imageStep' = "update"
    /\ UNCHANGED <<monitoring, deletionVars, hookVars>>

NextImages ==
  \/ MonitorMount
  \/ MonitorRerender
  \/ DocUpdate

\* the image monitor beside a hook that stays as constructed
InitImages ==
  /\ Init
  /\ enabled
  /\ savedContent = NullContent
  /\ remoteDraft = NullArticle

SpecImages == InitImages /\ [][NextImages]_vars

\* Unmount as it would be if the cleanup left the pending timers alone
Unmount_keepsTimers ==
  /\ ops < MaxOps
  /\ ops' = ops + 1
  /\ hasInitiallyLoaded /\ listening
  /\ listening' = FALSE
  /\ depsLoaded' = hasInitiallyLoaded
  /\ localSaveTimeoutId' = {}
  /\ serverSaveTimeoutId' = {}
  /\ callbacks' = {}
  /\ lastStep' = "Unmount"
  /\ failure' = "none"
  /\ UNCHANGED <<cacheFresh, flushAttempted>>
  /\ UNCHANGED <<enabled, instrumented, editor, stampVars,
                 lastServerSavedContent, saveVars, hasUnsavedChanges, loadVars,
                 localTimers, serverTimers, sinceUpdate, history, submits,
                 navVars, imageVars>>

\* The component unmounts, or is given another editor: the cleanup of the
\* auto-save effect runs (lines 296-300) and no effect of this hook instance
\* runs again on this editor.  The refs, the cache entry and a save in
\* flight stay as they are.
Unmount ==
  /\ ops < MaxOps
  /\ ops' = ops + 1
  /\ hasInitiallyLoaded /\ listening
  /\ listening' = FALSE
  /\ depsLoaded' = hasInitiallyLoaded
  /\ localTimers' = clearTimeout(localTimers, localSaveTimeoutId)
  /\ serverTimers' = clearTimeout(serverTimers, serverSaveTimeoutId)
  /\ localSaveTimeoutId' = {}
  /\ serverSaveTimeoutId' = {}
  /\ sinceUpdate' = sinceWhile(localTimers' \cup serverTimers', sinceUpdate)
  /\ callbacks' = {}
  /\ lastStep' = "Unmount"
  /\ failure' = "none"
  /\ UNCHANGED cacheFresh
  /\ flushAttempted' = (instrumented /\ flushAttempted /\ serverTimers' # {})
  /\ UNCHANGED <<enabled, instrumented, editor, stampVars,
                 lastServerSavedContent, saveVars, hasUnsavedChanges, loadVars,
                 history, submits, navVars, imageVars>>

\* the draft path of a hook that may be torn down
NextTeardown ==
  \/ Next
  \/ Unmount

SpecTeardown == Init /\ [][NextTeardown]_vars

\* ------------------------------------------------ handleImageDeletion
\* the image urls handleImageDeletion is called with
ImageUrls == {"u1", "u2"}

\* handleImageDeletion as it would be if a failed delete request were thrown
\* on to the caller after onError
deletionResult_rethrows(call, ok, successThrows, errorThrows) ==
  IF ok THEN
    IF ~call.onSuccess THEN
      [settled |-> "resolved", request |-> "ok", call |-> call, called |-> <<>>]
    ELSE IF ~successThrows THEN
      [settled |-> "resolved", request |-> "ok", call |-> call,
       called |-> <<[callback |-> "onSuccess", arg |-> "none", threw |-> FALSE]>>]
    ELSE
      [settled |-> "rejected", request |-> "ok", call |-> call,
       called |-> <<[callback |-> "onSuccess", arg |-> "none", threw |-> TRUE]>>]
  ELSE
    [settled |-> "rejected", request |-> "failed", call |-> call,
     called |-> IF call.onError
                  THEN <<[callback |-> "onError", arg |-> "request error",
                          threw |-> FALSE]>>
                  ELSE <<>>]

\* How a call of handleImageDeletion settles, lines 19-40, given whether the
\* delete request succeeds and whether onSuccess and onError throw when they
\* run: the callbacks invoked in order, each with its argument, and whether
\* the promise resolves or rejects.
deletionResult(call, ok, successThrows, errorThrows) ==
  LET success == [callback |-> "onSuccess", arg |-> "none",
                  threw |-> successThrows]
      caught == IF ~ok THEN "request error" ELSE "onSuccess error"
      error == [callback |-> "onError", arg |-> caught, threw |-> errorThrows]
      inTry == IF ok /\ call.onSuccess THEN <<success>> ELSE <<>>
      enters == ~ok \/ (call.onSuccess /\ successThrows)
      inCatch == IF enters /\ call.onError THEN <<error>> ELSE <<>>
  IN [settled |-> IF enters /\ call.onError /\ errorThrows
                    THEN "rejected" ELSE "resolved",
      request |-> IF ok THEN "ok" ELSE "failed",
      call |-> call,
      called |-> inTry \o inCatch]

\* handleImageDeletion up to its await, lines 11-25
handleImageDeletion(imageUrl, onSuccess, onError) ==
  /\ Len(deletions) < MaxDeletions
  /\ deletions' = Append(deletions, [imageUrl |-> imageUrl,
                                     onSuccess |-> onSuccess,
                                     onError |-> onError])
  /\ deletionOutcome' = NoOutcome
  /\ UNCHANGED <<monitorVars, hookVars>>

\* the delete request of a call settles and the call runs to its end,
\* lines 27-40
DeleteSettles ==
  \E i \in 1..Len(deletions), ok \in BOOLEAN, successThrows \in BOOLEAN,
     errorThrows \in BOOLEAN :
    /\ deletionOutcome' =
         deletionResult(deletions[i], ok, successThrows, errorThrows)
    /\ deletions' = RemoveAt(deletions, i)
    /\ UNCHANGED <<monitorVars, hookVars>>

NextDeletion ==
  \/ \E imageUrl \in ImageUrls, onSuccess \in BOOLEAN, onError \in BOOLEAN :
       handleImageDeletion(imageUrl, onSuccess, onError)
  \/ DeleteSettles

SpecDeletion == InitImages /\ [][NextDeletion]_vars

NextSubmit ==
  \/ Next
  \/ submitContent
  \/ SubmitResolve
  \/ SubmitReject

SpecSubmit == Init /\ [][NextSubmit]_vars

\* ================================================================ claims
\* the steps in which loadInitialContent runs to its end
LoadSteps == {"Mount", "FetchResolve", "FetchReject"}
\* the steps that call saveToServer
RemoteFlushSteps == {"ServerTimerFire", "manualSave"}

\* C1: for one hook instance at most one remote draft save is in flight, and
\* isSaving is true exactly while one is: no save starts while isSaving.
C1_AtMostOneSaveInFlight ==
  /\ Len(saves) <= 1
  /\ isSaving <=> Len(saves) = 1

\* C1 witness: saveToServer has just been called, with content that differs
\* from the marker, while an earlier save (the remote store has it already)
\* is still in flight; that save is still the only one.
C1_Witness ==
  /\ lastStep \in RemoteFlushSteps
  /\ enabled
  /\ Len(saves) = 1
  /\ saves[1].stored
  /\ JSONstringify(editor) # lastServerSavedContent

\* C2: a saveToServer call (from the timer or from manualSave) made while
\* the serialized editor content equals lastServerSavedContent starts no
\* network write and touches neither the marker, the dirty flag nor a callback.
C2_UnchangedContentIsNotSent ==
  [][(lastStep' \in RemoteFlushSteps
        /\ JSONstringify(editor) = lastServerSavedContent)
      => /\ saves' = saves
         /\ lastServerSavedContent' = lastServerSavedContent
         /\ hasUnsavedChanges' = hasUnsavedChanges
         /\ callbacks' = {}]_vars

\* C2 witness: saveToServer has just run with remote saving on, no save in
\* flight and content equal to the marker, and no save was started.
C2_Witness ==
  /\ lastStep \in RemoteFlushSteps
  /\ enabled
  /\ ~isSaving
  /\ saves = <<>>
  /\ JSONstringify(editor) = lastServerSavedContent

\* the candidates of a load that completes in this step
LoadCompletes == loadPhase # "done" /\ loadPhase' = "done"
LocalCandidate == IF loadPhase = "fetching" THEN loadLocal ELSE savedContent
RemoteCandidate == IF lastStep' = "FetchResolve" THEN remoteDraft ELSE NullArticle
LocalValid == LocalCandidate.exists /\ isValidContent(LocalCandidate.content)
RemoteValid == RemoteCandidate.exists /\ isValidContent(RemoteCandidate.content)

\* C3: initial load gives the editor the local content when only the local
\* record is valid, the remote content when only the remote record is valid,
\* the content of the later record when both are valid, and the empty
\* document when neither is.
C3_FourWayRule ==
  [][LoadCompletes =>
       /\ (LocalValid /\ ~RemoteValid) => editor' = LocalCandidate.content
       /\ (RemoteValid /\ ~LocalValid) => editor' = RemoteCandidate.content
       /\ (LocalValid /\ RemoteValid
             /\ RemoteCandidate.updatedAt > LocalCandidate.lastModified)
            => editor' = RemoteCandidate.content
       /\ (LocalValid /\ RemoteValid
             /\ LocalCandidate.lastModified > RemoteCandidate.updatedAt)
            => editor' = LocalCandidate.content
       /\ (~LocalValid /\ ~RemoteValid) => editor' = EmptyDoc]_vars

\* C4: a load never applies malformed content to the editor and never writes
\* it to the local cache, whichever candidate it comes from.
C4_MalformedIsAbsent ==
  (lastStep \in LoadSteps /\ loadPhase = "done")
    => /\ isValidContent(editor)
       /\ loadSource = "server" => isValidContent(savedContent.content)

\* C5: when the winner of the load is the remote record, the load replaces
\* the local cache entry by it (content, timestamp, title) and the editor
\* holds its content; when the winner is local the load leaves the cache
\* entry as it was.
C5_RemoteWinnerIsCached ==
  [][LoadCompletes =>
       /\ loadSource' = "server" =>
            /\ lastStep' = "FetchResolve"
            /\ savedContent'.exists
            /\ savedContent'.content = remoteDraft.content
            /\ savedContent'.title = remoteDraft.title
            /\ savedContent'.lastModified = remoteDraft'.updatedAt
            /\ editor' = remoteDraft.content
       /\ loadSource' = "local" =>
            /\ savedContent'.exists = savedContent.exists
            /\ savedContent'.content = savedContent.content
            /\ savedContent'.title = savedContent.title
            /\ (savedContent'.lastModified < remoteDraft'.updatedAt)
                 <=> (savedContent.lastModified < remoteDraft.updatedAt)
            /\ (savedContent'.lastModified > remoteDraft'.updatedAt)
                 <=> (savedContent.lastModified > remoteDraft.updatedAt)]_vars

\* C5 witness: a load has just completed with the remote record winning, and
\* the editor and the local cache both hold the remote document B.
C5_Witness ==
  /\ lastStep = "FetchResolve"
  /\ loadSource = "server"
  /\ remoteDraft.content = DocB
  /\ editor = DocB
  /\ savedContent.content = DocB
  /\ savedContent.lastModified = remoteDraft.updatedAt

\* C6: after the load, once an update has been handled and no local flush
\* is pending any more, the local cache entry holds the editor's content
\* (until the next update; clear, reload and load are not updates).
C6_CacheFollowsEdits ==
  (history = "edited" /\ localTimers = {})
    => (savedContent.exists /\ savedContent.content = editor)

\* C7: after clearContent and a reload with no edit or manual save in
\* between or after, the load finds no local cache entry and the editor
\* ends with the empty document.
C7_ClearThenReloadIsEmpty ==
  history = "reloaded"
    => /\ loadPhase = "idle" => ~savedContent.exists
       /\ loadPhase = "done" => editor = EmptyDoc

\* C8: every update the listener handles leaves the dirty flag set, exactly
\* one local timer, due in 1 second, and exactly one remote timer, due in 10
\* seconds, if remote saving is enabled, and none otherwise.
C8_UpdateReschedules ==
  lastStep = "handleUpdate"
    => /\ hasUnsavedChanges
       /\ localTimers = {LOCAL_SAVE_DELAY}
       /\ serverTimers = IF enabled THEN {SERVER_SAVE_DELAY} ELSE {}

\* C8 witness: the resubscribed listener has just handled a second edit, with
\* remote saving enabled.
C8_Witness ==
  /\ lastStep = "handleUpdate"
  /\ enabled
  /\ ops >= 2
  /\ history = "edited"
  /\ serverTimers = {SERVER_SAVE_DELAY}

\* C9: at most one local timer and at most one remote timer are pending.
C9_OneTimerEach ==
  /\ Cardinality(localTimers) <= 1
  /\ Cardinality(serverTimers) <= 1

\* C9 witness: the effect has re-subscribed and seconds have passed since an
\* update it handled, so that one timer of each kind is pending, part-way.
C9_Witness ==
  /\ depsLoaded
  /\ listening
  /\ Cardinality(localTimers) = 1
  /\ Cardinality(serverTimers) = 1
  /\ SERVER_SAVE_DELAY \notin serverTimers

\* C10: a local timer fires only when no update was handled in the second
\* before, a remote timer only when none was in the 10 seconds before.
C10_Debounced ==
  [][/\ (lastStep' = "LocalTimerFire" /\ localTimers' # localTimers)
          => sinceUpdate >= LOCAL_SAVE_DELAY
     /\ (lastStep' = "ServerTimerFire" /\ serverTimers' # serverTimers)
          => sinceUpdate >= SERVER_SAVE_DELAY]_vars

\* C10 witness: after two edits handled by the listener, the remote timer
\* has just fired and started a save of the editor's content.
C10_Witness ==
  /\ lastStep = "ServerTimerFire"
  /\ ops >= 2
  /\ history = "edited"
  /\ Len(saves) = 1
  /\ ~saves[1].stored
  /\ saves[1].content = editor

\* the steps in which a pending saveFunction call settles
SaveSettleSteps == {"SaveResolve", "SaveReject"}
\* the remote timers of the state before, a second later or not
AgedServerTimers == serverTimers \cup {t - 1 : t \in serverTimers}

\* C11: a failed remote save leaves the dirty flag and the marker as they
\* were, invokes onSaveError and not onSaveSuccess, and releases isSaving.
C11_FailedSaveKeepsState ==
  [][lastStep' = "SaveReject"
      => /\ hasUnsavedChanges' = hasUnsavedChanges
         /\ lastServerSavedContent' = lastServerSavedContent
         /\ callbacks' = {"onSaveError"}
         /\ ~isSaving']_vars

\* C11 witness: a save has just failed; the dirty flag is still set, the
\* marker does not name the editor's content and isSaving is released.
C11_Witness ==
  /\ lastStep = "SaveReject"
  /\ callbacks = {"onSaveError"}
  /\ hasUnsavedChanges
  /\ ~isSaving
  /\ JSONstringify(editor) # lastServerSavedContent

\* C12: a remote flush requested while a save is in flight starts no save,
\* invokes no callback and changes neither isSaving, the marker nor the
\* dirty flag; the completion of a save starts no save; a save is started
\* only by a remote timer or a manual save.
C12_BusyFlushIsDropped ==
  [][/\ (lastStep' \in RemoteFlushSteps /\ isSaving)
         => /\ saves' = saves
            /\ isSaving'
            /\ callbacks' = {}
            /\ lastServerSavedContent' = lastServerSavedContent
            /\ hasUnsavedChanges' = hasUnsavedChanges
     /\ lastStep' \in SaveSettleSteps
         => /\ Len(saves') < Len(saves)
            /\ ~isSaving']_vars

\* C12 witness: a flush has just been requested while the save of another,
\* earlier document is in flight, and that save is still the only one.
C12_Witness ==
  /\ lastStep \in RemoteFlushSteps
  /\ isSaving
  /\ Len(saves) = 1
  /\ saves[1].content # editor

\* C13: a failed save is not retried: a save is started only by a remote
\* timer firing or by a manual save, a remote timer is set only by a handled
\* update, and the failure itself starts no save and sets no timer.
C13_NoAutomaticRetry ==
  [][/\ Len(saves') > Len(saves) => lastStep' \in RemoteFlushSteps
     /\ lastStep' # "handleUpdate" => serverTimers' \subseteq AgedServerTimers
     /\ lastStep' = "SaveReject"
          => /\ Len(saves') < Len(saves)
             /\ serverTimers' = serverTimers]_vars

\* C13 witness: a save has just failed, the editor's content is not what the
\* remote store confirmed, and no save and no timer is pending.
C13_Witness ==
  /\ lastStep = "SaveReject"
  /\ enabled
  /\ saves = <<>>
  /\ serverTimers = {}
  /\ localTimers = {}
  /\ hasUnsavedChanges
  /\ JSONstringify(editor) # lastServerSavedContent

\* the steps that call saveContent
LocalFlushSteps == {"LocalTimerFire", "manualSave"}
\* the local cache entry holds the editor's document, written in this step
FreshlyCached ==
  /\ savedContent'.exists
  /\ savedContent'.content = editor
  /\ savedContent'.title = NoTitle
  /\ savedContent'.lastModified = now'
\* saveToServer, called in this step, starts a save of the editor's document
StartsSave ==
  /\ Len(saves') = Len(saves) + 1
  /\ saves'[Len(saves')].content = editor
  /\ ~saves'[Len(saves')].stored

\* C14: manualSave flushes locally at once and, exactly when remote saving
\* is enabled, no save is in flight and the content differs from the marker,
\* starts a remote save at once; it leaves both debounce timers as they are.
C14_ManualSaveFlushesBoth ==
  [][lastStep' = "manualSave"
      => /\ (isValidContent(editor) /\ failure' = "none") => FreshlyCached
         /\ localTimers' = localTimers
         /\ serverTimers' = serverTimers
         /\ IF enabled /\ ~isSaving
                 /\ JSONstringify(editor) # lastServerSavedContent
              THEN StartsSave
              ELSE saves' = saves]_vars

\* C14 witness: with both timers pending, manualSave has just cached the
\* editor's document and started a remote save of it.
C14_Witness ==
  /\ lastStep = "manualSave"
  /\ enabled
  /\ localTimers # {}
  /\ serverTimers # {}
  /\ savedContent.exists
  /\ savedContent.content = editor
  /\ savedContent.lastModified = now
  /\ Len(saves) = 1
  /\ ~saves[1].stored
  /\ saves[1].content = editor

\* C16: right after clearContent the local cache entry is absent, the editor
\* holds the empty document, the dirty flag is false and the marker is null.
C16_ClearResets ==
  lastStep = "clearContent"
    => /\ ~savedContent.exists
       /\ editor = EmptyDoc
       /\ ~hasUnsavedChanges
       /\ lastServerSavedContent = NullString

\* C16 witness: clearContent has just run after a load that cached the
\* remote document and an edit whose timers are still pending.
C16_Witness ==
  /\ lastStep = "clearContent"
  /\ loadSource = "server"
  /\ localTimers # {}
  /\ serverTimers # {}
  /\ ~savedContent.exists

\* C18: a fetch that fails invokes onFetchError and the load goes on with
\* the local record alone: the editor gets the local content if it is valid
\* and the empty document otherwise, contentLoadError stays null, the dirty
\* flag is cleared and isLoadingContent is false again.
C18_FetchFailureIsNotFatal ==
  [][lastStep' = "FetchReject"
      => /\ callbacks' = {"onFetchError"}
         /\ editor' = IF LocalValid THEN LocalCandidate.content ELSE EmptyDoc
         /\ loadSource' = IF LocalValid THEN "local" ELSE "none"
         /\ contentLoadError' = "null"
         /\ ~hasUnsavedChanges'
         /\ ~isLoadingContent'
         /\ failure' = "none"]_vars

\* C18 witness: the fetch has just failed although a remote draft exists,
\* and the editor holds the local document.
C18_Witness ==
  /\ lastStep = "FetchReject"
  /\ callbacks = {"onFetchError"}
  /\ remoteDraft.exists
  /\ loadSource = "local"
  /\ editor = DocA
  /\ contentLoadError = "null"
  /\ ~isLoadingContent

\* C20: a local flush of valid content whose write succeeds replaces the
\* local cache entry by {content = editor content, lastModified = now},
\* whether or not that content is cached already; a flush of invalid content
\* or one whose write fails leaves the entry as it is; nothing is thrown.
C20_LocalFlushOverwrites ==
  [][lastStep' \in LocalFlushSteps
      => /\ (isValidContent(editor) /\ failure' = "none") => FreshlyCached
         /\ (~isValidContent(editor) \/ failure' = "caught")
               => savedContent' = savedContent
         /\ failure' # "thrown"]_vars

\* C20 witness: the document loaded from the local cache has just been
\* flushed again, unedited, and the entry carries the time of this flush.
C20_Witness ==
  /\ lastStep = "manualSave"
  /\ ops = 1
  /\ loadSource = "local"
  /\ failure = "none"
  /\ savedContent.exists
  /\ savedContent.content = editor
  /\ savedContent.lastModified = now
  /\ savedContent.lastModified > remoteDraft.updatedAt

\* the steps of submitContent
SubmitSteps == {"submitContent", "SubmitResolve", "SubmitReject"}
\* the steps in which a network operation fails
NetworkFailureSteps == {"FetchReject", "SaveReject", "SubmitReject"}

\* C15: submitContent, whether it succeeds or fails, leaves the dirty flag,
\* the marker, isSaving, the local cache entry and both timers unchanged.
C15_SubmitLeavesDraftState ==
  [][lastStep' \in SubmitSteps
      => /\ hasUnsavedChanges' = hasUnsavedChanges
         /\ lastServerSavedContent' = lastServerSavedContent
         /\ isSaving' = isSaving
         /\ savedContent' = savedContent
         /\ localTimers' = localTimers
         /\ serverTimers' = serverTimers]_vars

\* C17: the failure of a network operation (fetch, draft save, submission)
\* is never thrown or rejected to the caller of the operation.
C17_NoFailureReachesCaller ==
  lastStep \in NetworkFailureSteps => failure # "thrown"

\* C19: loadInitialContent runs at most once for an article id, and once the
\* load effect has run with an editor, it has run for the article id the
\* hook is given.
C19_OneLoadPerArticle ==
  /\ \A a \in ArticleIds : loads[a] <= 1
  /\ hasInitiallyLoaded => loads[articleId] = 1
\* C22: a remote save in flight when clearContent is invoked is not
\* cancelled: clearContent leaves the save and the in-flight flag as they
\* are, the remote store still writes the content captured before the clear,
\* and the success sets the marker to that payload and clears the dirty flag.
C22_ClearLeavesSaveInFlight ==
  [][/\ lastStep' = "clearContent" => saves' = saves /\ isSaving' = isSaving
     /\ lastStep' = "ServerStore" /\ history = "cleared"
          => \E i \in 1..Len(saves) :
               /\ ~saves[i].stored
               /\ remoteDraft'.content = saves[i].content
     /\ lastStep' = "SaveResolve" /\ history = "cleared"
          => \E i \in 1..Len(saves) :
               /\ lastServerSavedContent' = saves[i].contentString
               /\ ~hasUnsavedChanges']_vars

\* after a clear the save started before it has succeeded: the editor is
\* empty and the marker is non-null and stale
C22_Witness ==
  /\ history = "cleared"
  /\ lastStep = "SaveResolve"
  /\ editor = EmptyDoc
  /\ lastServerSavedContent # NullString
  /\ lastServerSavedContent # JSONstringify(editor)
  /\ remoteDraft.exists
  /\ JSONstringify(remoteDraft.content) = lastServerSavedContent

\* C24: when a remote save succeeds the marker becomes the serialization of
\* the payload captured when the save started, not of the editor content at
\* completion; a later remote flush whose content differs from the marker
\* sends the editor content.
C24_MarkerIsSentPayload ==
  [][/\ lastStep' = "SaveResolve"
          => \E i \in 1..Len(saves) :
               /\ saves[i].stored
               /\ saves' = RemoveAt(saves, i)
               /\ lastServerSavedContent' = saves[i].contentString
     /\ (/\ lastStep' = "ServerTimerFire"
         /\ enabled /\ ~isSaving
         /\ JSONstringify(editor) # lastServerSavedContent)
          => StartsSave]_vars

\* a save has succeeded whose payload differs from the editor content at
\* completion, the edit made in flight waiting for its remote timer
C24_Witness ==
  /\ lastStep = "SaveResolve"
  /\ history = "edited"
  /\ lastServerSavedContent # NullString
  /\ lastServerSavedContent # JSONstringify(editor)
  /\ serverTimers # {}
  /\ ~isSaving

\* C25: if an editor update occurs while a remote save is in flight, the
\* dirty flag is still true after that save completes successfully.
C25_EditDuringSaveStaysDirty ==
  [][(/\ lastStep' = "SaveResolve"
      /\ history = "edited"
      /\ hasUnsavedChanges
      /\ JSONstringify(editor') # lastServerSavedContent')
       => hasUnsavedChanges']_vars

\* C26: the marker only ever takes a payload confirmed by the remote draft
\* store: one sent in a draft save that succeeded or one fetched from it.
C26_MarkerOnlyFromRemote ==
  [][lastServerSavedContent' # lastServerSavedContent
       /\ lastServerSavedContent' # NullString
       => \/ lastStep' = "SaveResolve"
          \/ lastStep' = "FetchResolve" /\ loadSource' = "server"]_vars

\* C28: the update listener is subscribed while the fetch is pending; the
\* load decides with the local record read when it started, and on
\* completion the editor holds the winner's content (or is empty) and the
\* dirty flag is false.
C28_LoadUsesRecordReadAtStart ==
  [][/\ loadPhase' = "fetching" => listening'
     /\ loadPhase = "fetching"
          /\ lastStep' \in {"Update", "handleUpdate"} \cup LocalFlushSteps
          => /\ lastStep' # "Update"
             /\ loadLocal' = loadLocal
             /\ loadPhase' = "fetching"
     /\ loadPhase = "fetching" /\ LoadCompletes
          => LET r == getMostRecentContent(loadLocal, RemoteCandidate) IN
             /\ loadSource' = r.source
             /\ editor' = IF r.content.exists THEN r.content.content
                          ELSE EmptyDoc
             /\ ~hasUnsavedChanges']_vars

\* the fetch has completed after an edit made and flushed to the cache while
\* it was pending: the local record read at the start won, the editor holds
\* it and not the flushed edit, and the dirty flag is false
C28_Witness ==
  /\ lastStep = "FetchResolve"
  /\ loadSource = "local"
  /\ savedContent.exists
  /\ savedContent.content # editor
  /\ serverTimers # {}
  /\ ~hasUnsavedChanges

\* C30: a remote save that was started releases the in-flight flag when its
\* network call settles, on success, on failure and when a success or error
\* callback throws; the flag is never true with no save in flight, and a
\* remote flush of changed content with no save in flight starts a save.
C30_InFlightFlagReleased ==
  /\ [](isSaving => saves # <<>>)
  /\ [][/\ lastStep' \in SaveSettleSteps
             => Len(saves') = Len(saves) - 1 /\ (saves' = <<>> => ~isSaving')
        /\ (/\ lastStep' \in RemoteFlushSteps
            /\ enabled /\ saves = <<>>
            /\ JSONstringify(editor) # lastServerSavedContent)
             => StartsSave]_vars

\* a save has succeeded, onSaveSuccess and then onSaveError have thrown, and
\* the flag is released
C30_Witness ==
  /\ lastStep = "SaveResolve"
  /\ callbacks = {"onSaveSuccess", "onSaveError"}
  /\ failure = "thrown"
  /\ saves = <<>>
  /\ ~isSaving

\* C21: when remote saving is not enabled the hook never contacts the remote
\* draft store: no fetch is pending, no remote timer is scheduled, no draft
\* save is in flight and no fetch or save callback runs, whatever is called.
C21_DisabledNeverContactsRemote ==
  ~enabled =>
    /\ loadPhase # "fetching"
    /\ ~isLoadingContent
    /\ serverTimers = {}
    /\ serverSaveTimeoutId = {}
    /\ saves = <<>>
    /\ ~isSaving
    /\ callbacks = {}
    /\ lastStep \notin {"FetchResolve", "FetchReject", "ServerTimerFire",
                        "ServerStore", "SaveResolve", "SaveReject"}

\* with remote saving off, saveToServer has been called directly on a
\* document edited after the load, and nothing was sent
C21_Witness ==
  /\ ~enabled
  /\ lastStep = "saveToServer"
  /\ history = "edited"
  /\ JSONstringify(editor) # lastServerSavedContent
  /\ saves = <<>>

\* C27: when both candidates of an initial load are valid, the remote record
\* wins only if its updatedAt is strictly later than the local lastModified;
\* on equal timestamps, or when either cannot be parsed as a date, the local
\* record wins.
C27_RemoteWinsOnlyIfStrictlyLater ==
  [][(LoadCompletes /\ LocalValid /\ RemoteValid)
       => /\ loadSource' =
               IF /\ RemoteCandidate.updatedAt # NaN
                  /\ LocalCandidate.lastModified # NaN
                  /\ RemoteCandidate.updatedAt > LocalCandidate.lastModified
                 THEN "server" ELSE "local"
          /\ editor' = IF loadSource' = "server" THEN RemoteCandidate.content
                       ELSE LocalCandidate.content]_vars

\* a load has completed with two valid candidates, the remote one carrying
\* an updatedAt that is not a date, and the local record won
C27_Witness ==
  /\ lastStep = "FetchResolve"
  /\ loadSource = "local"
  /\ savedContent.exists /\ isValidContent(savedContent.content)
  /\ savedContent.lastModified # NaN
  /\ remoteDraft.exists /\ isValidContent(remoteDraft.content)
  /\ remoteDraft.updatedAt = NaN
  /\ editor = savedContent.content

\* C29: an initial load never discards the newest edit: when the cache entry
\* was flushed from an edit made after the content of the remote record was
\* captured, the load selects the local record.
C29_LoadKeepsNewestEdit ==
  [][(/\ lastStep' = "FetchResolve"
      /\ cacheFresh
      /\ loadLocal = savedContent
      /\ isValidContent(loadLocal.content)
      /\ remoteDraft.content # loadLocal.content)
       => loadSource' = "local"]_vars

\* the identifiers an array holds
Identifiers(array) == {array[i] : i \in 1..Len(array)}

\* C23: on every editor update the image monitor invokes the deletion
\* callback for exactly the identifiers that were in the previous snapshot
\* and are absent from the current document, and afterwards the snapshot
\* holds the current document's identifiers.
C23_DeletedIsSetDifference ==
  [][imageStep' = "handleUpdate"
       => /\ Identifiers(deletedImages') =
               Identifiers(previousImages)
                 \ Identifiers(getImagesFromDoc(docNodes'))
          /\ previousImages' = getImagesFromDoc(docNodes')]_vars

\* an update has removed every node carrying u2 while a node carrying u1 and
\* a node that is no image stayed: the callback ran for u2 alone
C23_Witness ==
  /\ imageStep = "handleUpdate"
  /\ deletedImages = <<"u2">>
  /\ previousImages = <<"u1">>
  /\ \E i \in 1..Len(docNodes) : docNodes[i].type = "paragraph"

TeardownSteps == {"Rerender", "Unmount"}

\* C32: the teardown of the auto-save effect removes the update listener and
\* cancels both pending timers without flushing: it writes nothing to the
\* cache or the remote store, an update after it schedules nothing, and a
\* timer fires only while the listener is subscribed.
C32_TeardownCancelsWithoutFlush ==
  [][/\ lastStep' \in TeardownSteps
          => /\ localTimers' = {} /\ serverTimers' = {}
             /\ savedContent' = savedContent
             /\ remoteDraft' = remoteDraft
             /\ saves' = saves
     /\ lastStep' = "Unmount" => ~listening'
     /\ (~listening /\ lastStep' \in {"Update", "handleUpdate"})
          => /\ lastStep' = "Update"
             /\ localTimers' = localTimers /\ serverTimers' = serverTimers
     /\ lastStep' \in {"LocalTimerFire", "ServerTimerFire"} => listening]_vars

\* seconds after an unmount that followed an edit by less than a second:
\* no timer is pending and the cache entry does not hold the edit
C32_Witness ==
  /\ hasInitiallyLoaded /\ ~listening
  /\ lastStep = "Tick"
  /\ history = "edited"
  /\ hasUnsavedChanges
  /\ localTimers = {} /\ serverTimers = {}
  /\ savedContent.content # editor

Invoked(outcome, name) ==
  {i \in 1..Len(outcome.called) : outcome.called[i].callback = name}

\* C34: handleImageDeletion never rejects because of a failed delete
\* request: on failure it invokes onError (if given) with the error and
\* resolves; onSuccess is invoked only after the request succeeded; onError
\* is not invoked after onSuccess completed normally, and it is invoked with
\* the error of onSuccess when onSuccess throws.
C34_DeletionFailureIsReported ==
  LET o == deletionOutcome IN
  o.settled # "none" =>
    /\ o.settled = "rejected"
         => /\ o.called # <<>>
            /\ o.called[Len(o.called)].callback = "onError"
            /\ o.called[Len(o.called)].threw
    /\ o.request = "failed"
         => /\ Invoked(o, "onSuccess") = {}
            /\ o.called = IF o.call.onError
                            THEN <<[callback |-> "onError",
                                    arg |-> "request error",
                                    threw |-> o.settled = "rejected"]>>
                            ELSE <<>>
    /\ Invoked(o, "onSuccess") # {}
         => /\ o.request = "ok" /\ o.call.onSuccess
            /\ o.called[1].callback = "onSuccess"
            /\ Cardinality(Invoked(o, "onSuccess")) = 1
    /\ \A i \in Invoked(o, "onSuccess") :
         IF o.called[i].threw
           THEN o.call.onError
                  => /\ Len(o.called) = 2
                     /\ o.called[2].callback = "onError"
                     /\ o.called[2].arg = "onSuccess error"
           ELSE Invoked(o, "onError") = {}
    /\ ~o.call.onError => Invoked(o, "onError") = {}
    /\ ~o.call.onSuccess => Invoked(o, "onSuccess") = {}

\* a call whose delete request failed has invoked onError with the error
\* and resolved, another call still awaiting its request
C34_Witness ==
  /\ deletionOutcome.settled = "resolved"
  /\ deletionOutcome.request = "failed"
  /\ Invoked(deletionOutcome, "onError") = {1}
  /\ deletionOutcome.called[1].arg = "request error"
  /\ deletions # <<>>

====
